---- MODULE Spec2Model ----
(***************************************************************************)
(* Event-planning assistant: the chat session of app.py, the assistant of  *)
(* ai_engine.py (fallback selection, field extraction, menu suggestion)    *)
(* and the catalog of firebase_config.py.                                  *)
(*                                                                         *)
(* Text is a TLA+ string, as in the source; a code point outside ASCII     *)
(* (emoji, bullet) is written "#", one "#" per code point.                 *)
(* Python's None is the empty tuple and a present optional value v is the  *)
(* one-element tuple <<v>>.                                                *)
(***************************************************************************)
EXTENDS Integers, Sequences, FiniteSets, TLC

VARIABLES
    sessions,                \* the UI sessions of the process
    chat,                    \* ai_assistant.chat (one per process)
    conversation_history,    \* ai_assistant.conversation_history
    chat_history,            \* st.session_state.chat_history, per session
    current_event_details,   \* st.session_state.current_event_details
    last,                    \* the handler that ran last, with its outcome
    text_in,                 \* pure-function harness: the text argument
    details_out,             \*   extract_event_details(text_in)
    fallback_out,            \*   _get_fallback_response(text_in)
    menu_in,                 \* pure-function harness: suggest_menu_items args
    menu_out,                \*   its result
    prompt_in,               \* pure-function harness: _build_enhanced_prompt
    prompt_out,              \*   args (with the history it reads), result
    catalog_in,              \* harness: the store and the get_menu_items arg
    catalog_out              \*   its result

vars == <<sessions, chat, conversation_history, chat_history,
          current_event_details, last, text_in, details_out, fallback_out,
          menu_in, menu_out, prompt_in, prompt_out, catalog_in, catalog_out>>

session_vars == <<sessions, chat, conversation_history, chat_history,
                  current_event_details, last>>
text_vars == <<text_in, details_out, fallback_out>>
menu_vars == <<menu_in, menu_out>>
prompt_vars == <<prompt_in, prompt_out>>
catalog_vars == <<catalog_in, catalog_out>>

None == <<>>
Some(v) == <<v>>

\* the parts of the state a specification leaves out
SessionIdle ==
    /\ sessions = {}
    /\ chat = None
    /\ conversation_history = <<>>
    /\ chat_history = <<>>
    /\ current_event_details = <<>>
    /\ last = None

TextIdle == text_in = "" /\ details_out = None /\ fallback_out = None

MenuIdle == menu_in = None /\ menu_out = None

PromptIdle == prompt_in = None /\ prompt_out = None

CatalogIdle == catalog_in = None /\ catalog_out = None

-----------------------------------------------------------------------------
(* Bounds                                                                  *)

MaxSends == 3       \* messages a session submits between two resets
MaxPhrases == 2     \* phrases joined into one harness text
MaxCatalog == 4     \* items of a harness catalog
MaxItemsArg == 5    \* largest max_items argument tried on those catalogs
MaxPromptCatalog == 11  \* items of the longest catalog handed to the prompt composer
MaxHistory == 4     \* exchanges of the longest history the prompt composer reads
MaxFilters == 2     \* tags of the longest diet-filter argument
MaxSharedSends == 1 \* messages each session submits between two resets when two sessions run

-----------------------------------------------------------------------------
(* Python string operations                                                *)

Min(S) == CHOOSE x \in S : \A y \in S : x <= y

CharAt(s, i) == SubSeq(s, i, i)

UpperLetters == "ABCDEFGHIJKLMNOPQRSTUVWXYZ"
LowerLetters == "abcdefghijklmnopqrstuvwxyz"

LowerChar(c) ==
    IF \E i \in 1..Len(UpperLetters) : CharAt(UpperLetters, i) = c
    THEN CharAt(LowerLetters,
                CHOOSE i \in 1..Len(UpperLetters) : CharAt(UpperLetters, i) = c)
    ELSE c

\* str.lower()
RECURSIVE lower(_)
lower(s) ==
    IF Len(s) = 0 THEN ""
    ELSE IF Len(s) = 1 THEN LowerChar(s)
    ELSE LET h == Len(s) \div 2
         IN  lower(SubSeq(s, 1, h)) \o lower(SubSeq(s, h + 1, Len(s)))

\* "word in s" on strings
Contains(s, word) ==
    \E i \in 1..(Len(s) - Len(word) + 1) : SubSeq(s, i, i + Len(word) - 1) = word

\* any(word in s for word in words)
AnyIn(s, words) == \E k \in 1..Len(words) : Contains(s, words[k])

\* sep.join(parts)
RECURSIVE Join(_, _)
Join(sep, parts) ==
    IF Len(parts) = 0 THEN ""
    ELSE IF Len(parts) = 1 THEN parts[1]
    ELSE parts[1] \o sep \o Join(sep, Tail(parts))

\* s.strip() is non-empty: some character is not whitespace
IsSpace(c) == c \in {" ", "\t", "\n", "\r", "\f"}
IsBlank(s) == \A i \in 1..Len(s) : IsSpace(CharAt(s, i))

Digits == "0123456789"
IsDigit(c) == \E d \in 1..Len(Digits) : CharAt(Digits, d) = c
DigitValue(c) == (CHOOSE d \in 1..Len(Digits) : CharAt(Digits, d) = c) - 1

\* int(s) for a string of decimal digits
RECURSIVE int(_)
int(s) ==
    IF Len(s) = 0 THEN 0
    ELSE 10 * int(SubSeq(s, 1, Len(s) - 1)) + DigitValue(CharAt(s, Len(s)))

-----------------------------------------------------------------------------
(* re.search for the two shapes of pattern the extractor uses              *)

\* last index of the run of digits that starts at i (greedy \d+)
RECURSIVE DigitRunEnd(_, _)
DigitRunEnd(s, i) ==
    IF i < Len(s) /\ IsDigit(CharAt(s, i + 1)) THEN DigitRunEnd(s, i + 1) ELSE i

\* first index at or after i that holds no whitespace (greedy \s*)
RECURSIVE SkipSpaces(_, _)
SkipSpaces(s, i) ==
    IF i <= Len(s) /\ IsSpace(CharAt(s, i)) THEN SkipSpaces(s, i + 1) ELSE i

StartsWithAt(s, i, word) ==
    /\ i + Len(word) - 1 <= Len(s)
    /\ SubSeq(s, i, i + Len(word) - 1) = word

AnyStartsWithAt(s, i, words) == \E k \in 1..Len(words) : StartsWithAt(s, i, words[k])

\* (\d+)\s*(?:w1|w2|...) matched at position i: the captured group, or None.
\* Giving back digits or whitespace never helps: the next character would be
\* a digit or a space, and no word starts with one.
NumThenWordAt(s, i, words) ==
    IF i <= Len(s) /\ IsDigit(CharAt(s, i))
       /\ AnyStartsWithAt(s, SkipSpaces(s, DigitRunEnd(s, i) + 1), words)
    THEN Some(SubSeq(s, i, DigitRunEnd(s, i)))
    ELSE None

\* (?:w1|w2|...)\s*(\d+) matched at position i: the captured group, or None
WordThenNumAt(s, i, words) ==
    LET ks == {k \in 1..Len(words) : StartsWithAt(s, i, words[k])}
        hit == {k \in ks :
                   LET j == SkipSpaces(s, i + Len(words[k]))
                   IN  j <= Len(s) /\ IsDigit(CharAt(s, j))}
    IN  IF hit = {} THEN None
        ELSE LET k == Min(hit)
                 j == SkipSpaces(s, i + Len(words[k]))
             IN  Some(SubSeq(s, j, DigitRunEnd(s, j)))

MatchAt(pattern, s, i) ==
    IF pattern.shape = "num_word"
    THEN NumThenWordAt(s, i, pattern.words)
    ELSE WordThenNumAt(s, i, pattern.words)

\* re.search(pattern, s): group(1) of the leftmost match, or None
re_search(pattern, s) ==
    LET starts == {i \in 1..Len(s) : MatchAt(pattern, s, i) # None}
    IN  IF starts = {} THEN None ELSE MatchAt(pattern, s, Min(starts))

-----------------------------------------------------------------------------
(* AIEventAssistant._get_fallback_response                                 *)

fallback_responses == [
    greeting |-> "Hello! I'm your Event Planning Assistant! # I'd love to help you create an amazing event. What type of celebration are you planning?",
    birthday |-> "Birthday parties are my favorite! # For a memorable birthday celebration, consider:\n\n# **Theme Ideas**: Vintage Hollywood, Garden Party, or Decade-themed (80s, 90s)\n# **Decorations**: Balloon arches, string lights, personalized banners\n# **Menu**: I'd recommend a mix of appetizers, a signature main course, and a show-stopping dessert!\n\nHow many guests are you expecting?",
    theme |-> "Great question about themes! Here are some popular options:\n\n# **Elegant Themes**: Masquerade, Great Gatsby, Wine & Dine\n# **Cultural Themes**: Mediterranean Night, Asian Fusion, Mexican Fiesta\n# **Fun Themes**: Retro Diner, Garden to Table, Game Night\n\nWhat vibe are you going for - elegant, casual, or fun?",
    menu |-> "For menu planning, I always start with dietary preferences! ##\n\nLet me know if you need:\n# Vegetarian/Vegan options\n# Gluten-free selections\n# Kid-friendly choices\n# Specific cuisine types\n\nWhat dietary considerations should we keep in mind?",
    default |-> "I'm here to help you plan an amazing event! # I can assist with themes, decorations, menu selection, and seating arrangements. What aspect of your event would you like to focus on first?" ]

greeting_words == <<"hello", "hi", "start", "help">>
birthday_words == <<"birthday", "bday">>
theme_words == <<"theme", "decoration", "decor">>
menu_words == <<"menu", "food", "eat", "dietary">>

\* mutant: the birthday branch tested before the greeting branch
fallback_bucket_birthday_first(user_message) ==
    LET message_lower == lower(user_message)
    IN  IF AnyIn(message_lower, birthday_words) THEN "birthday"
        ELSE IF AnyIn(message_lower, greeting_words) THEN "greeting"
        ELSE IF AnyIn(message_lower, theme_words) THEN "theme"
        ELSE IF AnyIn(message_lower, menu_words) THEN "menu"
        ELSE "default"

\* the bucket the if/elif chain selects
fallback_bucket(user_message) ==
    LET message_lower == lower(user_message)
    IN  IF AnyIn(message_lower, greeting_words) THEN "greeting"
        ELSE IF AnyIn(message_lower, birthday_words) THEN "birthday"
        ELSE IF AnyIn(message_lower, theme_words) THEN "theme"
        ELSE IF AnyIn(message_lower, menu_words) THEN "menu"
        ELSE "default"

_get_fallback_response(user_message) ==
    fallback_responses[fallback_bucket(user_message)]

-----------------------------------------------------------------------------
(* AIEventAssistant.extract_event_details                                  *)

event_types == <<"birthday", "anniversary", "wedding", "corporate", "party",
                 "celebration", "dinner", "lunch">>

pattern_people == [shape |-> "num_word", words |-> <<"people", "guests", "persons">>]
pattern_for == [shape |-> "word_num", words |-> <<"for", "around", "about">>]
pattern_pax == [shape |-> "num_word", words |-> <<"pax", "attendees">>]

\* mutants: the list in another order
guest_patterns_pax_first == <<pattern_pax, pattern_for, pattern_people>>
guest_patterns_for_first == <<pattern_for, pattern_people, pattern_pax>>

guest_patterns == <<pattern_people, pattern_for, pattern_pax>>

dietary_keywords == <<
    [diet_type |-> "vegan", keywords |-> <<"vegan">>],
    [diet_type |-> "vegetarian", keywords |-> <<"vegetarian", "veggie">>],
    [diet_type |-> "gluten-free", keywords |-> <<"gluten-free", "gluten free", "celiac">>],
    [diet_type |-> "dairy-free", keywords |-> <<"dairy-free", "dairy free", "lactose">>],
    [diet_type |-> "low-carb", keywords |-> <<"low-carb", "low carb", "keto">>],
    [diet_type |-> "halal", keywords |-> <<"halal">>],
    [diet_type |-> "kosher", keywords |-> <<"kosher">>] >>

theme_keywords == <<"retro", "vintage", "modern", "rustic", "elegant", "casual",
                    "formal", "themed">>

\* for w in words: if w in text: field = w; break
RECURSIVE first_keyword(_, _, _)
first_keyword(text_lower, words, k) ==
    IF k > Len(words) THEN None
    ELSE IF Contains(text_lower, words[k]) THEN Some(words[k])
    ELSE first_keyword(text_lower, words, k + 1)

\* for pattern in guest_patterns: match = re.search(...); if match: ...; break
RECURSIVE guest_count(_, _)
guest_count(text_lower, k) ==
    IF k > Len(guest_patterns) THEN None
    ELSE LET match == re_search(guest_patterns[k], text_lower)
         IN  IF match # None THEN Some(int(match[1]))
             ELSE guest_count(text_lower, k + 1)

\* for diet_type, keywords in dietary_keywords.items(): ... append(diet_type)
RECURSIVE dietary_preferences(_, _)
dietary_preferences(text_lower, k) ==
    IF k > Len(dietary_keywords) THEN <<>>
    ELSE (IF AnyIn(text_lower, dietary_keywords[k].keywords)
          THEN <<dietary_keywords[k].diet_type>> ELSE <<>>)
         \o dietary_preferences(text_lower, k + 1)

extract_event_details(conversation_text) ==
    LET text_lower == lower(conversation_text)
    IN  [eventType |-> first_keyword(text_lower, event_types, 1),
         guestCount |-> guest_count(text_lower, 1),
         theme |-> first_keyword(text_lower, theme_keywords, 1),
         dietaryPreferences |-> dietary_preferences(text_lower, 1),
         specialRequests |-> <<>>,
         budget |-> None,
         date |-> None]

-----------------------------------------------------------------------------
(* AIEventAssistant.suggest_menu_items                                     *)

\* dict.get(key, default)
get(d, key, default) == IF key \in DOMAIN d THEN d[key] ELSE default

\* "x in list"
InList(x, list) == \E k \in 1..Len(list) : list[k] = x

\* list[:n]
SliceTo(list, n) ==
    IF n >= 0
    THEN SubSeq(list, 1, IF n < Len(list) THEN n ELSE Len(list))
    ELSE SubSeq(list, 1, Len(list) + n)

\* for item in menu_items: if any(pref in item_diets ...): filtered_items.append(item)
RECURSIVE filtered_items(_, _)
filtered_items(menu_items, dietary_prefs) ==
    IF menu_items = <<>> THEN <<>>
    ELSE LET item == Head(menu_items)
             item_diets == get(item, "dietType", <<>>)
         IN  (IF \E k \in 1..Len(dietary_prefs) : InList(dietary_prefs[k], item_diets)
              THEN <<item>> ELSE <<>>)
             \o filtered_items(Tail(menu_items), dietary_prefs)

\* mutant: no fall back to the whole catalog when the filter leaves nothing
diet_filter_no_fallback(menu_items, dietary_prefs) ==
    IF dietary_prefs # <<>>
    THEN filtered_items(menu_items, dietary_prefs)
    ELSE menu_items

\* mutant: the matching items are put in front of the whole catalog
diet_filter_prepend(menu_items, dietary_prefs) ==
    IF dietary_prefs # <<>>
    THEN filtered_items(menu_items, dietary_prefs) \o menu_items
    ELSE menu_items

\* if dietary_prefs: ...; menu_items = filtered_items if filtered_items else menu_items
diet_filter(menu_items, dietary_prefs) ==
    IF dietary_prefs # <<>>
    THEN LET filtered == filtered_items(menu_items, dietary_prefs)
         IN  IF filtered # <<>> THEN filtered ELSE menu_items
    ELSE menu_items

CategoriesCap == 3

\* mutant: the two admission tests joined by "and" instead of "or"
RECURSIVE variety_loop_and(_, _, _, _)
variety_loop_and(menu_items, suggested_items, categories_covered, max_items) ==
    IF menu_items = <<>> \/ Len(suggested_items) >= max_items
    THEN suggested_items
    ELSE LET item == Head(menu_items)
             category == get(item, "category", "Other")
         IN  IF Cardinality(categories_covered) < CategoriesCap
                /\ category \notin categories_covered
             THEN variety_loop_and(Tail(menu_items), Append(suggested_items, item),
                                   categories_covered \cup {category}, max_items)
             ELSE variety_loop_and(Tail(menu_items), suggested_items,
                                   categories_covered, max_items)

\* for item in menu_items: if len(suggested_items) >= max_items: break; ...
RECURSIVE variety_loop(_, _, _, _)
variety_loop(menu_items, suggested_items, categories_covered, max_items) ==
    IF menu_items = <<>> \/ Len(suggested_items) >= max_items
    THEN suggested_items
    ELSE LET item == Head(menu_items)
             category == get(item, "category", "Other")
         IN  IF Cardinality(categories_covered) < CategoriesCap
                \/ category \notin categories_covered
             THEN variety_loop(Tail(menu_items), Append(suggested_items, item),
                               categories_covered \cup {category}, max_items)
             ELSE variety_loop(Tail(menu_items), suggested_items,
                               categories_covered, max_items)

suggest_menu_items(menu_items, event_details, max_items) ==
    IF menu_items = <<>> THEN <<>>
    ELSE LET dietary_prefs == get(event_details, "dietaryPreferences", <<>>)
             walked == diet_filter(menu_items, dietary_prefs)
         IN  SliceTo(variety_loop(walked, <<>>, {}, max_items), max_items)

-----------------------------------------------------------------------------
(* AIEventAssistant: the chat attribute, generate_response and             *)
(* clear_conversation                                                      *)

\* self.chat after initialize_ai: never assigned (no API key: the early
\* return), None (initialisation raised), or a chat session of the provider
\* that has taken `turns` messages
ChatMissing == [attr |-> "missing"]
ChatNone == [attr |-> "none"]
ChatSession(turns) == [attr |-> "session", turns |-> turns]

\* what the provider does with one request: a reply text, or an exception
ProviderRaises == [kind |-> "raise"]
ProviderReplies(text) == [kind |-> "text", text |-> text]

Returned(value, stored) == [kind |-> "return", value |-> value, stored |-> stored]
Raised(exc) == [kind |-> "raise", exc |-> exc, stored |-> FALSE]

\* the body of the try block of generate_response
generate_response_try(cur_chat, user_message, provider) ==
    IF cur_chat.attr = "missing" THEN Raised("AttributeError")
    ELSE IF cur_chat.attr = "none"
         THEN Returned(_get_fallback_response(user_message), FALSE)
    ELSE IF provider.kind = "raise" THEN Raised("Exception")
    ELSE Returned(provider.text, TRUE)

\* mutant: no except clause around the body
generate_response_no_except(cur_chat, user_message, provider) ==
    generate_response_try(cur_chat, user_message, provider)

\* try: ... except Exception: return self._get_fallback_response(user_message)
generate_response(cur_chat, user_message, provider) ==
    LET body == generate_response_try(cur_chat, user_message, provider)
    IN  IF body.kind = "raise"
        THEN Returned(_get_fallback_response(user_message), FALSE)
        ELSE body

\* mutant: the history is kept
clear_conversation_keeps_history(cur_chat, history) ==
    [conversation_history |-> history,
     chat |-> IF cur_chat.attr = "session" THEN ChatSession(0) ELSE cur_chat,
     raised |-> cur_chat.attr = "missing"]

\* self.conversation_history = []; if self.chat: self.chat = start_chat(...)
\* (no try: reading the attribute raises when it was never assigned;
\* start_chat only builds a local object)
clear_conversation(cur_chat, history) ==
    [conversation_history |-> <<>>,
     chat |-> IF cur_chat.attr = "session" THEN ChatSession(0) ELSE cur_chat,
     raised |-> cur_chat.attr = "missing"]

-----------------------------------------------------------------------------
(* FirestoreManager._get_mock_menu_items: the demo catalog                 *)
(* (a price is the text str() gives for its float literal)                 *)

mock_items == <<
    [id |-> "1", name |-> "Classic Caesar Salad", category |-> "Appetizers",
     ingredients |-> <<"romaine lettuce", "parmesan", "croutons", "caesar dressing">>,
     dietType |-> <<"vegetarian">>, price |-> "12.99",
     imageURL |-> "https://example.com/caesar.jpg"],
    [id |-> "2", name |-> "Grilled Salmon", category |-> "Main Course",
     ingredients |-> <<"atlantic salmon", "lemon", "herbs", "vegetables">>,
     dietType |-> <<"gluten-free">>, price |-> "24.99",
     imageURL |-> "https://example.com/salmon.jpg"],
    [id |-> "3", name |-> "Quinoa Buddha Bowl", category |-> "Main Course",
     ingredients |-> <<"quinoa", "avocado", "chickpeas", "kale", "tahini">>,
     dietType |-> <<"vegan", "gluten-free">>, price |-> "16.99",
     imageURL |-> "https://example.com/buddha-bowl.jpg"],
    [id |-> "4", name |-> "Chocolate Lava Cake", category |-> "Desserts",
     ingredients |-> <<"dark chocolate", "butter", "eggs", "flour", "vanilla">>,
     dietType |-> <<"vegetarian">>, price |-> "8.99",
     imageURL |-> "https://example.com/lava-cake.jpg"],
    [id |-> "5", name |-> "Vegan Mushroom Risotto", category |-> "Main Course",
     ingredients |-> <<"arborio rice", "mushrooms", "nutritional yeast", "vegetable broth">>,
     dietType |-> <<"vegan", "gluten-free">>, price |-> "18.99",
     imageURL |-> "https://example.com/risotto.jpg"] >>

\* any(diet in item['dietType'] for diet in diet_filters)
any_diet_in(item, diet_filters) ==
    \E k \in 1..Len(diet_filters) : InList(diet_filters[k], item.dietType)

\* mutant: the filter argument is ignored
_get_mock_menu_items_unfiltered(diet_filters) == mock_items

\* if diet_filters: return the items carrying one of the tags; else all five
\* (diet_filters is None, or Some(list); None and [] are both falsy)
_get_mock_menu_items(diet_filters) ==
    IF diet_filters # None /\ diet_filters[1] # <<>>
    THEN SelectSeq(mock_items, LAMBDA item : any_diet_in(item, diet_filters[1]))
    ELSE mock_items

\* self._db after initialize_firestore: None (the connection failed) or a client
DbNone == [db |-> "none"]
DbClient == [db |-> "client"]

\* what the store does with the query: it raises, or it streams documents
QueryRaises == [kind |-> "raise"]
QueryStreams(docs) == [kind |-> "docs", docs |-> docs]

\* item_data = doc.to_dict(); item_data['id'] = doc.id
item_data(doc) ==
    [k \in (DOMAIN doc.data) \cup {"id"} |-> IF k = "id" THEN doc.id ELSE doc.data[k]]

\* query.where('dietType', 'array_contains_any', diet_filters).stream()
stream(docs, diet_filters) ==
    IF diet_filters # None /\ diet_filters[1] # <<>>
    THEN SelectSeq(docs, LAMBDA doc :
             /\ "dietType" \in DOMAIN doc.data
             /\ \E k \in 1..Len(diet_filters[1]) :
                    InList(diet_filters[1][k], doc.data.dietType))
    ELSE docs

\* the body of the try block of get_menu_items
get_menu_items_try(db, query, diet_filters) ==
    IF db = DbNone
    THEN [kind |-> "return", value |-> _get_mock_menu_items(diet_filters)]
    ELSE IF query.kind = "raise" THEN [kind |-> "raise", exc |-> "Exception"]
    ELSE [kind |-> "return",
          value |-> [k \in 1..Len(stream(query.docs, diet_filters)) |->
                        item_data(stream(query.docs, diet_filters)[k])]]

\* try: ... except Exception: return self._get_mock_menu_items(diet_filters)
get_menu_items(db, query, diet_filters) ==
    LET body == get_menu_items_try(db, query, diet_filters)
    IN  IF body.kind = "raise"
        THEN [kind |-> "return", value |-> _get_mock_menu_items(diet_filters)]
        ELSE body

-----------------------------------------------------------------------------
(* AIEventAssistant._build_enhanced_prompt                                 *)

get_system_prompt == "You are an expert Event Planning Assistant for a smart restaurant management system. Your role is to help staff plan memorable events, parties, and themed nights.\n\nCAPABILITIES:\n- Suggest creative event themes and concepts\n- Recommend decorations, costumes, and ambiance ideas  \n- Create seating arrangements and layouts\n- Filter and suggest menu items based on dietary preferences\n- Provide timeline and planning guidance\n- Offer cost-effective solutions\n\nPERSONALITY:\n- Enthusiastic and creative\n- Professional yet approachable\n- Detail-oriented and practical\n- Always consider dietary restrictions and accessibility\n\nRESPONSE FORMAT:\n- Be conversational and engaging\n- Provide specific, actionable suggestions\n- When suggesting menus, ask about dietary preferences\n- Always end with a follow-up question to keep the conversation flowing\n- Use emojis sparingly but effectively\n\nCONSTRAINTS:\n- Focus on restaurant/dining events only\n- Keep suggestions realistic and budget-conscious\n- Always prioritize guest safety and comfort\n- Respect cultural sensitivities in theme suggestions\n\nRemember: You're helping create memorable experiences that will delight guests and showcase the restaurant's capabilities."

MenuCap == 10        \* menu_items[:10]
HistoryWindow == 3   \* self.conversation_history[-3:]
ReplyCap == 200      \* entry['assistant'][:200]

\* str(n) for n >= 0
RECURSIVE str_int(_)
str_int(n) ==
    IF n < 10 THEN CharAt(Digits, n + 1)
    ELSE str_int(n \div 10) \o CharAt(Digits, (n % 10) + 1)

\* list[-n:]
LastN(list, n) ==
    SubSeq(list, IF Len(list) > n THEN Len(list) - n + 1 ELSE 1, Len(list))

\* the keys of an event-details dict, in insertion order
details_keys == <<"eventType", "guestCount", "theme", "dietaryPreferences",
                  "specialRequests", "budget", "date">>
list_keys == {"dietaryPreferences", "specialRequests"}

Quoted(text) == "\"" \o text \o "\""

\* json.dumps(value, indent=2) of one value of the dict, at nesting level 1
\* (the texts are plain ASCII words: nothing to escape)
json_value(key, value) ==
    IF key \in list_keys
    THEN IF value = <<>> THEN "[]"
         ELSE "[\n    "
              \o Join(",\n    ", [k \in 1..Len(value) |-> Quoted(value[k])])
              \o "\n  ]"
    ELSE IF value = None THEN "null"
    ELSE IF key = "guestCount" THEN str_int(value[1])
    ELSE Quoted(value[1])

\* json.dumps(context, indent=2)
json_dumps(context) ==
    LET keys == SelectSeq(details_keys, LAMBDA k : k \in DOMAIN context)
    IN  IF keys = <<>> THEN "{}"
        ELSE "{\n  "
             \o Join(",\n  ",
                     [k \in 1..Len(keys) |->
                         Quoted(keys[k]) \o ": " \o json_value(keys[k], context[keys[k]])])
             \o "\n}"

\* f"- {item['name']} (${item['price']}) - {item['category']} - Dietary: {dietary_info}"
menu_line(item) ==
    "- " \o item.name \o " ($" \o item.price \o ") - " \o item.category
         \o " - Dietary: " \o Join(", ", get(item, "dietType", <<>>))

\* the two lines of one entry of the history
RECURSIVE history_lines(_)
history_lines(entries) ==
    IF entries = <<>> THEN <<>>
    ELSE <<"User: " \o Head(entries).user,
           "Assistant: " \o SliceTo(Head(entries).assistant, ReplyCap) \o "...">>
         \o history_lines(Tail(entries))

\* mutant: the whole history is listed
recent_entries_all(history) == history

\* for entry in self.conversation_history[-3:]
recent_entries(history) == LastN(history, HistoryWindow)

\* mutant: one item too many
listed_items_eleven(menu_items) == SliceTo(menu_items, MenuCap + 1)

\* for item in menu_items[:10]
listed_items(menu_items) == SliceTo(menu_items, MenuCap)

prompt_parts(user_message, menu_items, context, history) ==
    <<get_system_prompt>>
    \o (IF menu_items # <<>>
        THEN <<"\nAVAILABLE MENU ITEMS:">>
             \o [k \in 1..Len(listed_items(menu_items)) |->
                    menu_line(listed_items(menu_items)[k])]
        ELSE <<>>)
    \o (IF DOMAIN context # {}
        THEN <<"\nCONTEXT: " \o json_dumps(context)>>
        ELSE <<>>)
    \o (IF Len(history) > 0
        THEN <<"\nRECENT CONVERSATION:">> \o history_lines(recent_entries(history))
        ELSE <<>>)
    \o <<"\nCURRENT USER MESSAGE: " \o user_message,
         "\nPlease provide a helpful, creative response as the Event Planning Assistant:">>

\* item['name'], item['price'] and item['category'] raise KeyError on an item
\* without the key; the function has no try of its own
_build_enhanced_prompt(user_message, menu_items, context, history) ==
    IF \E k \in 1..Len(listed_items(menu_items)) :
           ~({"name", "price", "category"} \subseteq DOMAIN listed_items(menu_items)[k])
    THEN Raised("KeyError")
    ELSE [kind |-> "return",
          value |-> Join("\n", prompt_parts(user_message, menu_items, context, history))]

-----------------------------------------------------------------------------
(* main_chat_interface: the Send and Clear Chat handlers                   *)

\* dict.update
update(d, other) ==
    [k \in (DOMAIN d) \cup (DOMAIN other) |->
        IF k \in DOMAIN other THEN other[k] ELSE d[k]]

\* mutant: only the newest message is read
full_conversation_latest(log) ==
    IF log = <<>> THEN "" ELSE log[Len(log)].message

\* mutant: only what the user wrote is read
full_conversation_user_only(log) ==
    Join(" ", [k \in 1..Len(SelectSeq(log, LAMBDA entry : entry.is_user)) |->
                  SelectSeq(log, LAMBDA entry : entry.is_user)[k].message])

\* " ".join([chat['message'] for chat in st.session_state.chat_history])
full_conversation(log) ==
    Join(" ", [k \in 1..Len(log) |-> log[k].message])

UserMessages == {"   ",
                 "Hi, can you help?",
                 "a birthday for 25 people, Vegan please",
                 "gluten free menu for 30 guests, retro look"}

ProviderTexts == {"Lovely! A rustic dinner with Keto options for about 40?"}

ProviderOutcomes == {ProviderRaises} \cup {ProviderReplies(t) : t \in ProviderTexts}

Init ==
    /\ sessions = {1}
    /\ chat \in {ChatMissing, ChatNone, ChatSession(0)}
    /\ conversation_history = <<>>
    /\ chat_history = [s \in sessions |-> <<>>]
    /\ current_event_details = [s \in sessions |-> <<>>]
    /\ last = None
    /\ TextIdle
    /\ MenuIdle
    /\ PromptIdle
    /\ CatalogIdle

\* the sends explored per session between two resets
SendsCap == IF Cardinality(sessions) > 1 THEN MaxSharedSends ELSE MaxSends

\* if send_button and user_message.strip(): ...
Send(s, user_message, provider) ==
    /\ ~IsBlank(user_message)
    /\ Len(chat_history[s]) < 2 * SendsCap
    /\ LET log == Append(chat_history[s],
                         [message |-> user_message, is_user |-> TRUE])
           event_details == extract_event_details(full_conversation(log))
           response == generate_response(chat, user_message, provider)
       IN  /\ current_event_details' =
                  [current_event_details EXCEPT
                      ![s] = update(current_event_details[s], event_details)]
           /\ chat_history' =
                  [chat_history EXCEPT
                      ![s] = IF response.kind = "return"
                             THEN Append(log, [message |-> response.value,
                                               is_user |-> FALSE])
                             ELSE log]
           /\ conversation_history' =
                  IF response.stored
                  THEN Append(conversation_history,
                              [user |-> user_message, assistant |-> response.value])
                  ELSE conversation_history
           /\ chat' = IF chat.attr = "session" /\ provider.kind = "text"
                      THEN ChatSession(chat.turns + 1) ELSE chat
           /\ last' = Some([op |-> "send", session |-> s,
                            user_message |-> user_message,
                            chat_was |-> chat.attr,
                            provider |-> IF chat.attr = "session"
                                         THEN provider.kind ELSE "unused",
                            response |-> response])
    /\ UNCHANGED <<sessions, text_vars, menu_vars, prompt_vars, catalog_vars>>

\* if clear_button: ...
Clear(s) ==
    /\ LET cleared == clear_conversation(chat, conversation_history)
       IN  /\ chat_history' = [chat_history EXCEPT ![s] = <<>>]
           /\ current_event_details' = [current_event_details EXCEPT ![s] = <<>>]
           /\ conversation_history' = cleared.conversation_history
           /\ chat' = cleared.chat
           /\ last' = Some([op |-> "clear", session |-> s,
                            dropped |-> Len(chat_history[s]),
                            raised |-> cleared.raised])
    /\ UNCHANGED <<sessions, text_vars, menu_vars, prompt_vars, catalog_vars>>

SendStep ==
    \E s \in sessions, m \in UserMessages, p \in ProviderOutcomes : Send(s, m, p)

ClearStep == \E s \in sessions : Clear(s)

Next == SendStep \/ ClearStep

Spec == Init /\ [][Next]_vars

\* two browser sessions served by one process: st.session_state is per
\* session, the imported module ai_engine and its ai_assistant exist once
SharedInit ==
    /\ sessions = {1, 2}
    /\ chat \in {ChatMissing, ChatNone, ChatSession(0)}
    /\ conversation_history = <<>>
    /\ chat_history = [s \in sessions |-> <<>>]
    /\ current_event_details = [s \in sessions |-> <<>>]
    /\ last = None
    /\ TextIdle
    /\ MenuIdle
    /\ PromptIdle
    /\ CatalogIdle

SpecShared == SharedInit /\ [][Next]_vars

-----------------------------------------------------------------------------
(* Harness for the pure text functions: one text, each function applied    *)

Phrases == <<"Hi, can you help?", "planning a birthday", "what theme ideas",
             "gluten free menu", "random topic", "for 20,", "about 15 people",
             "30 pax", "Around 8 Guests">>

PhraseSeqs == UNION {[1..n -> 1..Len(Phrases)] : n \in 0..MaxPhrases}

TextOf(choice) == Join(" ", [k \in 1..Len(choice) |-> Phrases[choice[k]]])

Texts == {TextOf(choice) : choice \in PhraseSeqs}

TextInit ==
    /\ text_in \in Texts
    /\ details_out = None
    /\ fallback_out = None
    /\ SessionIdle
    /\ MenuIdle
    /\ PromptIdle
    /\ CatalogIdle

ApplyExtract ==
    /\ details_out = None
    /\ details_out' = Some(extract_event_details(text_in))
    /\ UNCHANGED <<text_in, fallback_out, session_vars, menu_vars, prompt_vars, catalog_vars>>

ApplyFallback ==
    /\ fallback_out = None
    /\ fallback_out' = Some(_get_fallback_response(text_in))
    /\ UNCHANGED <<text_in, details_out, session_vars, menu_vars, prompt_vars, catalog_vars>>

TextNext == ApplyExtract \/ ApplyFallback

SpecText == TextInit /\ [][TextNext]_vars

-----------------------------------------------------------------------------
(* Claims about the pure text functions, checked under SpecText            *)

C8_Order == <<pattern_people, pattern_for, pattern_pax>>

\* C8: the guest count is the integer captured by the first of the patterns
\* '<N> people/guests/persons', 'for|around|about <N>', '<N> pax/attendees'
\* (in that order) that matches anywhere in the lower-cased text, whatever
\* the position of the matches in the text, and is unset when none matches.
C8_GuestCountByPatternPriority ==
    details_out # None =>
        LET t == lower(text_in)
            got == details_out[1].guestCount
            m(k) == re_search(C8_Order[k], t)
        IN  /\ (\A k \in 1..3 : m(k) = None) => got = None
            /\ \A k \in 1..3 :
                   (m(k) # None /\ \A j \in 1..(k - 1) : m(j) = None)
                       => got = Some(int(m(k)[1]))
            /\ text_in = "30 pax for 20," => got = Some(20)
            /\ text_in = "30 pax Around 8 Guests" => got = Some(8)
            /\ text_in = "30 pax" => got = Some(30)
            /\ text_in = "random topic" => got = None

\* a lower-priority pattern (pax) matches another number earlier in the text
C8_Witness ==
    /\ details_out # None
    /\ text_in = "30 pax for 20,"
    /\ details_out[1].guestCount = Some(20)

\* C9 as stated: "for 20, about 15 people" yields the number captured by
\* 'for|about <N>', 20.
C9_Original ==
    (details_out # None /\ text_in = "for 20, about 15 people")
        => details_out[1].guestCount = Some(20)

\* C9 (amended): for "for 20, about 15 people" both patterns match, '<N>
\* people' is tried first, and the guest count is its capture, 15, not the 20
\* captured by 'for|about <N>'.
C9_PeoplePatternWins ==
    (details_out # None /\ text_in = "for 20, about 15 people")
        => /\ re_search(pattern_for, lower(text_in)) = Some("20")
           /\ re_search(pattern_people, lower(text_in)) = Some("15")
           /\ details_out[1].guestCount = Some(15)

C9_Witness ==
    /\ details_out # None
    /\ text_in = "for 20, about 15 people"
    /\ details_out[1].guestCount # None

C10_Groups == <<[bucket |-> "greeting", words |-> greeting_words],
                [bucket |-> "birthday", words |-> birthday_words],
                [bucket |-> "theme", words |-> theme_words],
                [bucket |-> "menu", words |-> menu_words]>>

\* C10: the fallback response is that of the first of the groups greeting,
\* birthday, theme, menu (in that order) with a keyword occurring in the
\* lower-cased message, else the default; the five example messages select
\* greeting, birthday, theme, menu and default.
C10_FallbackFirstGroupWins ==
    fallback_out # None =>
        LET t == lower(text_in)
            got == fallback_out[1]
            hit(g) == AnyIn(t, C10_Groups[g].words)
        IN  /\ (\A g \in 1..4 : ~hit(g)) => got = fallback_responses.default
            /\ \A g \in 1..4 :
                   (hit(g) /\ \A h \in 1..(g - 1) : ~hit(h))
                       => got = fallback_responses[C10_Groups[g].bucket]
            /\ text_in = "Hi, can you help?" => got = fallback_responses.greeting
            /\ text_in = "planning a birthday" => got = fallback_responses.birthday
            /\ text_in = "what theme ideas" => got = fallback_responses.theme
            /\ text_in = "gluten free menu" => got = fallback_responses.menu
            /\ text_in = "random topic" => got = fallback_responses.default

\* a message with keywords of two groups gets the earlier group's response
C10_Witness ==
    /\ fallback_out = Some(fallback_responses.greeting)
    /\ text_in = "planning a birthday Hi, can you help?"

-----------------------------------------------------------------------------
(* Harness for the prompt composer: one call of _build_enhanced_prompt     *)

\* a catalog as a document store may return it: the demo items over and
\* over, each under a name of its own
PromptItem(k) ==
    [mock_items[((k - 1) % Len(mock_items)) + 1] EXCEPT
        !.id = str_int(k), !.name = @ \o " no. " \o str_int(k)]

PromptCatalog(n) == [k \in 1..n |-> PromptItem(k)]

\* a stored document need not carry every field
NamelessItem == [id |-> "0", category |-> "Desserts", price |-> "5.0"]

PromptCatalogs ==
    {PromptCatalog(n) : n \in 0..MaxPromptCatalog}
        \cup {<<PromptItem(1), NamelessItem>>}

ShortReply == "Lovely! A rustic dinner with Keto options for about 40?"
LongReply == "A garden party it is. Start with a welcome drink on the terrace, move on to shared platters of seasonal starters at long tables, keep the main course simple with two choices, one of them vegan, and close the evening with a dessert table, coffee and a short toast by the host of the evening."

Replies == <<ShortReply, LongReply>>

\* conversation_history after n stored exchanges
PromptHistory(choice) ==
    [k \in 1..Len(choice) |->
        [user |-> "question " \o str_int(k), assistant |-> Replies[choice[k]]]]

PromptHistories ==
    {PromptHistory(choice) :
        choice \in UNION {[1..n -> 1..Len(Replies)] : n \in 0..MaxHistory}}

PromptContexts ==
    {<<>>, extract_event_details("a birthday for 25 people, Vegan please")}

PromptInit ==
    /\ prompt_in \in {Some([user_message |-> "what theme ideas", menu_items |-> c,
                            context |-> x, history |-> h]) :
                         c \in PromptCatalogs, x \in PromptContexts,
                         h \in PromptHistories}
    /\ prompt_out = None
    /\ SessionIdle
    /\ TextIdle
    /\ MenuIdle
    /\ CatalogIdle

ApplyCompose ==
    /\ prompt_out = None
    /\ prompt_out' = Some(_build_enhanced_prompt(prompt_in[1].user_message,
                                                 prompt_in[1].menu_items,
                                                 prompt_in[1].context,
                                                 prompt_in[1].history))
    /\ UNCHANGED <<prompt_in, session_vars, text_vars, menu_vars, catalog_vars>>

PromptNext == ApplyCompose

SpecPrompt == PromptInit /\ [][PromptNext]_vars

-----------------------------------------------------------------------------
(* The prompt composer (SpecPrompt)                                        *)

RECURSIVE Ascending(_)
Ascending(S) == IF S = {} THEN <<>> ELSE <<Min(S)>> \o Ascending(S \ {Min(S)})

\* the lines that follow the header line, up to the next empty line
SectionLines(text, header) ==
    LET newlines == {i \in 1..Len(text) : CharAt(text, i) = "\n"}
        ends == newlines \cup {Len(text) + 1}
        line_starts == {1} \cup {i + 1 : i \in newlines}
        heads == {s \in line_starts :
                     /\ SubSeq(text, s, s + Len(header) - 1) = header
                     /\ s + Len(header) \in ends}
    IN  IF heads = {} THEN <<>>
        ELSE LET h == Min(heads)
                 \* the first empty line after the header
                 stop == Min({s \in line_starts : s > h /\ s \in ends})
                 starts == Ascending({s \in line_starts : s > h /\ s < stop})
             IN  [k \in 1..Len(starts) |->
                     SubSeq(text, starts[k],
                            (IF k < Len(starts) THEN starts[k + 1] ELSE stop) - 2)]

C11_Composed == prompt_out # None /\ prompt_out[1].kind = "return"

C11_MenuLines == SectionLines(prompt_out[1].value, "AVAILABLE MENU ITEMS:")

C11_RecentLines == SectionLines(prompt_out[1].value, "RECENT CONVERSATION:")

\* C11: the composed prompt lists at most the first 10 catalog items, in
\* catalog order, and at most 3 prior exchanges, which are the 3 most recent
\* ones of the history in their original order; of each assistant reply of
\* the history no more than its first 200 characters appear (followed by
\* "...").
C11_PromptBounded ==
    C11_Composed =>
        LET items == prompt_in[1].menu_items
            history == prompt_in[1].history
            shown == IF Len(items) < 10 THEN Len(items) ELSE 10
            kept == IF Len(history) < 3 THEN Len(history) ELSE 3
        IN  /\ Len(C11_MenuLines) = shown
            /\ \A k \in 1..shown : Contains(C11_MenuLines[k], items[k].name)
            /\ \A k \in (shown + 1)..Len(items) :
                   ~Contains(prompt_out[1].value, items[k].name)
            /\ Len(C11_RecentLines) = 2 * kept
            /\ \A k \in 1..kept :
                   LET entry == history[Len(history) - kept + k]
                       cut == IF Len(entry.assistant) < 200
                              THEN Len(entry.assistant) ELSE 200
                   IN  /\ C11_RecentLines[2 * k - 1] = "User: " \o entry.user
                       /\ C11_RecentLines[2 * k] =
                              "Assistant: " \o SubSeq(entry.assistant, 1, cut) \o "..."
            /\ \A k \in 1..(Len(history) - kept) :
                   ~Contains(prompt_out[1].value, "User: " \o history[k].user)

\* a prompt composed from 11 items and 4 exchanges, a long reply among the
\* last three: 10 items and 3 exchanges are listed
C11_Witness ==
    /\ C11_Composed
    /\ Len(prompt_in[1].menu_items) > 10
    /\ Len(prompt_in[1].history) > 3
    /\ Len(prompt_in[1].history[Len(prompt_in[1].history)].assistant) > 200
    /\ Len(C11_MenuLines) = 10
    /\ Len(C11_RecentLines) = 6

-----------------------------------------------------------------------------
(* Harness for suggest_menu_items: one call on a catalog, a profile and a  *)
(* max_items                                                               *)

A1 == [id |-> "A1", category |-> "A", dietType |-> <<"vegetarian">>]
A2 == [id |-> "A2", category |-> "A", dietType |-> <<"gluten-free">>]
B1 == [id |-> "B1", category |-> "B", dietType |-> <<"vegan", "gluten-free">>]
C1 == [id |-> "C1", category |-> "C", dietType |-> <<>>]
A3 == [id |-> "A3", category |-> "A", dietType |-> <<"vegan">>]
D1 == [id |-> "D1", category |-> "D"]
X1 == [id |-> "X1", dietType |-> <<"vegetarian">>]

MenuItems == {A1, A2, B1, C1, A3, D1, X1}

ExampleCatalog == <<A1, A2, B1, C1, A3, D1>>

\* catalogs of distinct items, as a document store returns them
Catalogs ==
    {ExampleCatalog} \cup
    UNION {{c \in [1..n -> MenuItems] : \A i, j \in 1..n : c[i] = c[j] => i = j}
              : n \in 0..MaxCatalog}

Profiles == {<<>>,
             [dietaryPreferences |-> <<>>],
             [dietaryPreferences |-> <<"vegan">>],
             [dietaryPreferences |-> <<"halal", "kosher">>],
             [dietaryPreferences |-> <<"vegetarian", "gluten-free">>]}

MenuInit ==
    /\ menu_in \in {Some([menu_items |-> c, event_details |-> p, max_items |-> n])
                       : c \in Catalogs, p \in Profiles, n \in 0..MaxItemsArg}
    /\ menu_out = None
    /\ SessionIdle
    /\ TextIdle
    /\ PromptIdle
    /\ CatalogIdle

ApplySuggest ==
    /\ menu_out = None
    /\ menu_out' = Some(suggest_menu_items(menu_in[1].menu_items,
                                           menu_in[1].event_details,
                                           menu_in[1].max_items))
    /\ UNCHANGED <<menu_in, session_vars, text_vars, prompt_vars, catalog_vars>>

MenuNext == ApplySuggest

SpecMenu == MenuInit /\ [][MenuNext]_vars

-----------------------------------------------------------------------------
(* Claims about suggest_menu_items, checked under SpecMenu                 *)

RECURSIVE IsSubsequence(_, _)
IsSubsequence(part, whole) ==
    IF part = <<>> THEN TRUE
    ELSE IF whole = <<>> THEN FALSE
    ELSE IF Head(part) = Head(whole)
         THEN IsSubsequence(Tail(part), Tail(whole))
         ELSE IsSubsequence(part, Tail(whole))

CalledPrefs == get(menu_in[1].event_details, "dietaryPreferences", <<>>)

Carries(item, prefs) ==
    \E k \in 1..Len(prefs) : InList(prefs[k], get(item, "dietType", <<>>))

\* C5: the result holds at most max_items items and is a subsequence of the
\* input catalog: catalog items only, in catalog order, none repeated.
C5_BoundedSubsequence ==
    menu_out # None =>
        LET result == menu_out[1]
        IN  /\ Len(result) <= menu_in[1].max_items
            /\ IsSubsequence(result, menu_in[1].menu_items)
            /\ \A i, j \in 1..Len(result) : result[i] = result[j] => i = j

\* the cap cuts the result short of a filtered catalog
C5_Witness ==
    /\ menu_out # None
    /\ CalledPrefs # <<>>
    /\ \E k \in 1..Len(menu_in[1].menu_items) :
           Carries(menu_in[1].menu_items[k], CalledPrefs)
    /\ menu_in[1].max_items > 0
    /\ Len(menu_out[1]) = menu_in[1].max_items
    /\ Len(menu_out[1]) < Len(menu_in[1].menu_items)

\* C6: with a non-empty catalog, max_items >= 1 and preferences that no
\* catalog item carries, the result is non-empty and is the result for the
\* same catalog with empty dietaryPreferences; an empty catalog gives an
\* empty result.
C6_FallbackToUnfiltered ==
    menu_out # None =>
        LET result == menu_out[1]
            catalog == menu_in[1].menu_items
        IN  /\ ( /\ catalog # <<>>
                 /\ menu_in[1].max_items >= 1
                 /\ \A k \in 1..Len(catalog) : ~Carries(catalog[k], CalledPrefs) )
                => /\ result # <<>>
                   /\ Head(result) = Head(catalog)
                   /\ result = suggest_menu_items(catalog,
                                                  [dietaryPreferences |-> <<>>],
                                                  menu_in[1].max_items)
            /\ catalog = <<>> => result = <<>>

\* preferences are given, no item carries one, and items are still suggested
C6_Witness ==
    /\ menu_out # None
    /\ CalledPrefs = <<"halal", "kosher">>
    /\ Len(menu_in[1].menu_items) >= 2
    /\ menu_in[1].max_items >= 2
    /\ Len(menu_out[1]) >= 2

\* the catalog the loop walks: the items carrying a preference when there
\* are preferences and some item carries one, else the whole catalog
C7_Walked ==
    LET catalog == menu_in[1].menu_items
        keep == {k \in 1..Len(catalog) : Carries(catalog[k], CalledPrefs)}
    IN  IF CalledPrefs # <<>> /\ keep # {}
        THEN SelectSeq(catalog, LAMBDA item : Carries(item, CalledPrefs))
        ELSE catalog

C7_Admitted(i) == InList(C7_Walked[i], menu_out[1])
C7_Before(i) == {j \in 1..(i - 1) : C7_Admitted(j)}
C7_CategoriesBefore(i) ==
    {get(C7_Walked[j], "category", "Other") : j \in C7_Before(i)}

\* C7: walking the (filtered or original) catalog in order, an item is
\* admitted exactly when fewer than max_items items are admitted so far and
\* either fewer than 3 distinct categories are admitted so far or its
\* category is not among them; [A1,A2,B1,C1,A3,D1] with max_items = 4 gives
\* [A1,A2,B1,C1].
C7_CategoryDiversity ==
    menu_out # None =>
        /\ IsSubsequence(menu_out[1], C7_Walked)
        /\ \A i \in 1..Len(C7_Walked) :
               C7_Admitted(i) <=>
                   /\ Cardinality(C7_Before(i)) < menu_in[1].max_items
                   /\ \/ Cardinality(C7_CategoriesBefore(i)) < 3
                      \/ get(C7_Walked[i], "category", "Other")
                             \notin C7_CategoriesBefore(i)
        /\ ( /\ menu_in[1].menu_items = ExampleCatalog
             /\ CalledPrefs = <<>>
             /\ menu_in[1].max_items = 4 )
            => menu_out[1] = <<A1, A2, B1, C1>>

\* three categories are covered and an item of a represented category is
\* passed over while the result is still short of max_items
C7_Witness ==
    /\ menu_out # None
    /\ \E i \in 1..Len(C7_Walked) :
           /\ ~C7_Admitted(i)
           /\ Cardinality(C7_Before(i)) < menu_in[1].max_items
           /\ Cardinality(C7_CategoriesBefore(i)) = 3
           /\ \E j \in (i + 1)..Len(C7_Walked) : C7_Admitted(j)

-----------------------------------------------------------------------------
(* Harness for the catalog: one call of get_menu_items                     *)

DietTags == [k \in 1..Len(dietary_keywords) |-> dietary_keywords[k].diet_type]

DietFilters ==
    {None} \cup {Some([k \in 1..Len(choice) |-> DietTags[choice[k]]]) :
                    choice \in UNION {[1..n -> 1..Len(DietTags)] : n \in 0..MaxFilters}}

StoredDocs ==
    <<[id |-> "d1", data |-> [name |-> "Hummus Plate", category |-> "Appetizers",
                              dietType |-> <<"vegan", "halal">>, price |-> "7.5"]],
      [id |-> "d2", data |-> [name |-> "Beef Brisket", category |-> "Main Course",
                              dietType |-> <<"kosher">>, price |-> "21.0"]],
      [id |-> "d3", data |-> [name |-> "House Lemonade", category |-> "Drinks",
                              price |-> "4.0"]]>>

\* the store as one call finds it: no connection, a query that raises, or a
\* query that streams the stored documents
Stores ==
    {[db |-> DbNone, query |-> QueryRaises],
     [db |-> DbClient, query |-> QueryRaises],
     [db |-> DbClient, query |-> QueryStreams(<<>>)],
     [db |-> DbClient, query |-> QueryStreams(StoredDocs)]}

CatalogInit ==
    /\ catalog_in \in {Some([db |-> st.db, query |-> st.query, diet_filters |-> f]) :
                          st \in Stores, f \in DietFilters}
    /\ catalog_out = None
    /\ SessionIdle
    /\ TextIdle
    /\ MenuIdle
    /\ PromptIdle

ApplyGetMenuItems ==
    /\ catalog_out = None
    /\ catalog_out' = Some(get_menu_items(catalog_in[1].db, catalog_in[1].query,
                                          catalog_in[1].diet_filters))
    /\ UNCHANGED <<catalog_in, session_vars, text_vars, menu_vars, prompt_vars>>

CatalogNext == ApplyGetMenuItems

SpecCatalog == CatalogInit /\ [][CatalogNext]_vars

-----------------------------------------------------------------------------
(* The catalog (SpecCatalog)                                               *)

\* no connection, or the query throws
C12_Unreachable ==
    catalog_in[1].db = DbNone \/ catalog_in[1].query.kind = "raise"

C12_Filter ==
    IF catalog_in[1].diet_filters = None THEN <<>> ELSE catalog_in[1].diet_filters[1]

-----------------------------------------------------------------------------
(* Claims about the chat session, checked under Spec                       *)

LastIs(op, s) == last # None /\ last[1].op = op /\ last[1].session = s

Prefs(details) == get(details, "dietaryPreferences", <<>>)

\* C1: generate_response returns a reply for every message and no exception
\* reaches its caller; when the chat handle is absent or the provider call
\* raises, the reply is the keyword-selected fallback response.
C1_FallbackNeverPropagates ==
    \A s \in sessions :
        LastIs("send", s) =>
            LET call == last[1]
                log == chat_history[s]
            IN  /\ call.response.kind = "return"
                /\ log # <<>>
                /\ log[Len(log)] = [message |-> call.response.value,
                                    is_user |-> FALSE]
                /\ (call.chat_was # "session" \/ call.provider = "raise")
                    => call.response.value
                           = fallback_responses[fallback_bucket(call.user_message)]

\* a send with the chat attribute never assigned (no API key) was answered
\* with the fallback response of its keyword group
C1_Witness ==
    /\ LastIs("send", 1)
    /\ last[1].chat_was = "missing"
    /\ last[1].response.kind = "return"
    /\ last[1].response.value = fallback_responses.birthday

\* C2: the assistant's exchange history holds one Exchange, pairing the user
\* message with the reply returned, for every message submitted since the
\* last reset, fallback replies included.
C2_EveryExchangeRecorded ==
    \A s \in sessions :
        LET log == chat_history[s]
        IN  /\ 2 * Len(conversation_history) = Len(log)
            /\ \A k \in 1..Len(conversation_history) :
                   /\ conversation_history[k].user = log[2 * k - 1].message
                   /\ conversation_history[k].assistant = log[2 * k].message

NoDuplicates(list) == \A i, j \in 1..Len(list) : list[i] = list[j] => i = j

C3_NoDuplicateTags ==
    \A s \in sessions : NoDuplicates(Prefs(current_event_details[s]))

C3_TagsPersist ==
    \A s \in sessions :
        \A k \in 1..Len(Prefs(current_event_details[s])) :
            \/ InList(Prefs(current_event_details[s])[k],
                      Prefs(current_event_details'[s]))
            \/ LastIs("clear", s)'

\* C3: dietaryPreferences of the live profile never holds a tag twice, and a
\* tag in it stays in it through every later send, until the session is
\* reset.
C3_DietaryPreferencesAccumulate ==
    []C3_NoDuplicateTags /\ [][C3_TagsPersist]_vars

\* a tag is still in the profile after a later send whose own text does not
\* mention it
C3_Witness ==
    /\ LastIs("send", 1)
    /\ Len(chat_history[1]) >= 4
    /\ InList("vegan", Prefs(current_event_details[1]))
    /\ ~Contains(lower(last[1].user_message), "vegan")
    /\ Len(Prefs(current_event_details[1])) >= 2

C4_EmptyAfterReset ==
    \A s \in sessions :
        LastIs("clear", s) =>
            /\ chat_history[s] = <<>>
            /\ conversation_history = <<>>
            /\ DOMAIN current_event_details[s] = {}

C4_FreshProfileAfterReset ==
    \A s \in sessions :
        (LastIs("clear", s) /\ LastIs("send", s)') =>
            /\ current_event_details'[s]
                   = extract_event_details(last'[1].user_message)
            /\ Len(chat_history'[s]) = 2
            /\ chat_history'[s][1].message = last'[1].user_message

\* C4: right after Clear Chat the UI chat log, the assistant's exchange
\* history and the live profile are empty, and the profile the next send
\* produces is the extraction of the message of that send alone.
C4_ResetLeavesSessionEmpty ==
    []C4_EmptyAfterReset /\ [][C4_FreshProfileAfterReset]_vars

\* a session with messages, recorded exchanges and a profile has been reset
C4_Witness ==
    /\ LastIs("clear", 1)
    /\ last[1].dropped >= 4
    /\ chat = ChatSession(0)
    /\ chat_history[1] = <<>>
    /\ conversation_history = <<>>
    /\ current_event_details[1] = <<>>

-----------------------------------------------------------------------------
(* Two sessions in one process (SpecShared)                                *)

\* C13: with two UI sessions in the same process, no send or Clear Chat of
\* one session changes the exchange history, the chat handle or the profile
\* that the other session's next prompt is composed from.
C13_SessionOwnsItsState ==
    [][\A s \in sessions :
          (last' # None /\ last'[1].session # s) =>
              /\ conversation_history' = conversation_history
              /\ chat' = chat
              /\ current_event_details'[s] = current_event_details[s]
              /\ chat_history'[s] = chat_history[s]]_vars

-----------------------------------------------------------------------------
(* The profile across a conversation (Spec)                                *)

ScalarFields == {"eventType", "guestCount", "theme"}

\* an earlier user message of the session carried a value for the field
C14_SetEarlier(s, field) ==
    \E k \in 1..Len(chat_history[s]) :
        /\ chat_history[s][k].is_user
        /\ extract_event_details(chat_history[s][k].message)[field] # None

\* C14: across a conversation the scalar fields follow newest-non-null-wins:
\* when an earlier message of the session set guest count, event type or
\* theme, a send whose message carries a value for that field leaves the
\* profile holding that message's value, and a send whose message has no
\* signal for the field leaves the earlier value in place.
C14_NewestNonNullWins ==
    [][\A s \in sessions :
          (last' # None /\ last'[1].op = "send" /\ last'[1].session = s) =>
              LET said == extract_event_details(last'[1].user_message)
              IN  \A field \in ScalarFields :
                      (/\ C14_SetEarlier(s, field)
                       /\ field \in DOMAIN current_event_details[s]
                       /\ current_event_details[s][field] # None) =>
                          current_event_details'[s][field] =
                              IF said[field] # None THEN said[field]
                              ELSE current_event_details[s][field]]_vars

\* the text of every message of the log, joined by spaces
C15_Text(log) == Join(" ", [k \in 1..Len(log) |-> log[k].message])

\* C15 as stated: after every send the profile equals extract_event_details
\* of the joined text of every message in the chat log since the last reset.
C15_Original ==
    \A s \in sessions :
        LastIs("send", s) =>
            current_event_details[s]
                = extract_event_details(C15_Text(chat_history[s]))

\* C15: after every send the profile equals extract_event_details of the
\* joined text of every message in the chat log since the last reset, user
\* messages and assistant replies alike, up to and including the message just
\* sent; the reply to that message, which the send appends last, is not part
\* of it. All seven fields are those of that extraction.
C15_ProfileIsExtractionOfLog ==
    \A s \in sessions :
        LastIs("send", s) =>
            LET log == chat_history[s]
            IN  /\ Len(log) >= 2
                /\ log[Len(log) - 1] = [message |-> last[1].user_message,
                                        is_user |-> TRUE]
                /\ ~log[Len(log)].is_user
                /\ DOMAIN current_event_details[s] = {details_keys[k] : k \in 1..Len(details_keys)}
                /\ current_event_details[s]
                       = extract_event_details(C15_Text(SubSeq(log, 1, Len(log) - 1)))

\* the event type "celebration" stands in the profile, and no message of the
\* user contains the word: it comes from the greeting fallback reply
C15_Witness ==
    /\ LastIs("send", 1)
    /\ current_event_details[1].eventType = Some("celebration")
    /\ \A k \in 1..Len(chat_history[1]) :
           chat_history[1][k].is_user =>
               ~Contains(lower(chat_history[1][k].message), "celebration")
    /\ \E k \in 1..(Len(chat_history[1]) - 2) :
           /\ ~chat_history[1][k].is_user
           /\ Contains(lower(chat_history[1][k].message), "celebration")

====
